---- MODULE Spec2Model ----
(***************************************************************************)
(* Model of homework.py: a bot that polls the homework-status endpoint and *)
(* forwards the review verdict of a homework to a Telegram chat.           *)
(*                                                                         *)
(* The program state is that of main(): the step_error_status flags, the   *)
(* timestamp, the last answer and check_answer, and the position of the    *)
(* control flow (pc).  The variables sent, site, branch, announced, seen,  *)
(* undelivered, armDelivered, fetchFailRun, fetchErrSent, polled, slept,    *)
(* errSince and cause are history variables: they record what the program  *)
(* did and never influence it.                                             *)
(***************************************************************************)
EXTENDS Naturals, Sequences, FiniteSets

VARIABLES
    env,                \* the required environment variables that are set
    pc,                 \* "start", "step1", "step2", "step3", "sleep", "exited", "crashed"
    exit_status,        \* exit status of the process, read once pc is "exited" or "crashed"
    step_error_status,  \* main(): the four flags, True = no error announced
    timestamp,          \* main(): from_date passed to get_api_answer
    answer,             \* main(): result of get_api_answer in this cycle
    check_answer,       \* main(): result of check_response in this cycle
    sent,               \* history: the send_message calls of this cycle, in order
    site,               \* history: outcome of each step in this cycle
    branch,             \* history: the except clause of step 1 that ran in this cycle
    announced,          \* history: per id, the status of the last delivered status notification
    seen,               \* history: ids that appeared in a validated payload of an earlier cycle
    undelivered,        \* history: the homework whose status notification failed delivery and was not fetched since
    armDelivered,       \* history: per step, whether the notification that armed it was delivered
    fetchFailRun,       \* history: length of the current run of failed fetches
    fetchErrSent,       \* history: step-1 error notifications sent in the current run
    polled,             \* history: whether get_api_answer was ever called
    slept,              \* history: seconds slept since the last call of get_api_answer
    errSince,           \* history: per step, error notifications sent since its last success
    cause               \* history: what the try block of get_api_answer raised in this cycle

vars == <<env, pc, exit_status, step_error_status, timestamp, answer, check_answer,
          sent, site, branch, announced, seen, undelivered, armDelivered,
          fetchFailRun, fetchErrSent, polled, slept, errSince, cause>>

----------------------------------------------------------------------------
(* Bounds of the model.                                                    *)

\* longest homeworks list a response carries
MaxHomeworks == 2
\* longest run of consecutive failed fetches
MaxRun == 3

----------------------------------------------------------------------------
(* Module-level constants of homework.py.                                  *)

RETRY_PERIOD == 600

RequiredTokens == {"PRACTICUM_TOKEN", "TELEGRAM_TOKEN", "TELEGRAM_CHAT_ID"}

HOMEWORK_ATTRIBUTES ==
    {"id", "status", "homework_name", "reviewer_comment", "date_updated", "lesson_name"}

\* the table with the texts of approved and rejected exchanged
HOMEWORK_VERDICTS_swapped ==
    [approved |-> "remarks", reviewing |-> "taken", rejected |-> "liked"]

\* The verdict texts, abbreviated: liked = "the reviewer liked everything",
\* taken = "taken up for review", remarks = "the reviewer has remarks".
HOMEWORK_VERDICTS ==
    [approved |-> "liked", reviewing |-> "taken", rejected |-> "remarks"]

----------------------------------------------------------------------------
(* Values.  Every Python value the model handles is a record of the same   *)
(* shape, so that any two can be compared: type is "dict", "None" or       *)
(* "other" (a value that is neither), keys is the key set of a dict.       *)

None ==
    [type |-> "None", keys |-> {}, id |-> 0, status |-> "", homework_name |-> ""]

NotADict ==
    [type |-> "other", keys |-> {}, id |-> 0, status |-> "", homework_name |-> ""]

Ids == {1, 2}

Name(i) == IF i = 1 THEN "hw1" ELSE "hw2"

Homework(i, s) ==
    [type |-> "dict", keys |-> {"id", "status", "homework_name"},
     id |-> i, status |-> s, homework_name |-> Name(i)]

\* The elements a homeworks list is drawn from: homeworks with each of the
\* documented statuses and with an undocumented one, a homework without
\* status, one without homework_name, one with an undocumented key, and an
\* element that is not a dict.
HomeworkValues ==
    {Homework(1, "approved"), Homework(1, "rejected"), Homework(1, "unknown"),
     Homework(2, "reviewing"), Homework(2, "approved"),
     [Homework(1, "") EXCEPT !.keys = {"id", "homework_name"}],
     [Homework(2, "approved") EXCEPT !.keys = {"id", "status"}, !.homework_name = ""],
     [Homework(2, "approved") EXCEPT !.keys = @ \cup {"unexpected"}],
     NotADict}

HomeworkLists ==
    UNION {[1..n -> HomeworkValues] : n \in 0..MaxHomeworks}

\* A decoded response body: keys is its key set, hwIsList and cdIsInt tell
\* whether response['homeworks'] is a list and response['current_date'] an int.
Body(keys, hwIsList, cdIsInt, homeworks) ==
    [type |-> "dict", keys |-> keys, hwIsList |-> hwIsList, cdIsInt |-> cdIsInt,
     homeworks |-> homeworks]

NoBody ==
    [type |-> "None", keys |-> {}, hwIsList |-> FALSE, cdIsInt |-> FALSE,
     homeworks |-> <<>>]

WellFormedBodies ==
    {Body({"homeworks", "current_date"}, TRUE, TRUE, h) : h \in HomeworkLists}

MalformedBodies ==
    {Body({"current_date"}, FALSE, TRUE, <<>>),
     Body({"homeworks"}, TRUE, FALSE, <<>>),
     Body({"homeworks", "current_date"}, FALSE, TRUE, <<>>),
     Body({"homeworks", "current_date"}, TRUE, FALSE, <<>>)}

\* What requests.get and response.json() can do in one call:
\*   "transport"  requests.get raises a ConnectionError (a RequestException)
\*   "status"     the response has a status code other than 200
\*   "badjson"    response.json() raises
\*   "nondict"    the body decodes to a value that is not a dict
\*   "dict"       the body decodes to a dict
Replies ==
    {[kind |-> k, body |-> NoBody] : k \in {"transport", "status", "badjson", "nondict"}}
    \cup {[kind |-> "dict", body |-> b] : b \in WellFormedBodies \cup MalformedBodies}

\* the outcome of a call: the exception it raised ("none" if it returned) and its value
Return(v) == [exc |-> "none", val |-> v]
Raise(e, v) == [exc |-> e, val |-> v]

----------------------------------------------------------------------------
(* The functions of homework.py.                                           *)

\* check_tokens without its last assert
check_tokens_partial(e) ==
    IF {"PRACTICUM_TOKEN", "TELEGRAM_TOKEN"} \subseteq e THEN "none" ELSE "AssertionError"

\* check_tokens(): the three asserts
check_tokens(e) ==
    IF RequiredTokens \subseteq e THEN "none" ELSE "AssertionError"

\* The exception raised inside the try block of get_api_answer, before the
\* except clause is looked at.
RaisedInTry(reply) ==
    CASE reply.kind = "transport" -> "ConnectionError"
      [] reply.kind = "status"    -> "HTTPError"
      [] reply.kind = "badjson"   -> "JSONDecodeError"
      [] OTHER                    -> "none"

\* `except requests.RequestException():` names an instance, not a class: when
\* the try block raises, matching the exception against it raises TypeError
\* in place of whatever was raised.
ExceptClause(raised) ==
    IF raised = "none" THEN "none" ELSE "TypeError"

\* get_api_answer(timestamp): returns the dict, or None for a body that is
\* not a dict
get_api_answer(reply) ==
    LET exc == ExceptClause(RaisedInTry(reply))
    IN  IF exc # "none" THEN Raise(exc, NoBody)
        ELSE IF reply.kind = "dict" THEN Return(reply.body)
        ELSE Return(NoBody)

\* the except clause of step 1 in main() that catches exc
Step1Branch(exc) ==
    CASE exc = "HTTPError" -> "HTTPError"
      [] exc \in {"RequestException", "ConnectionError", "JSONDecodeError"} -> "RequestException"
      [] OTHER -> "Exception"

\* the first element of the list that check_response rejects, 0 if none
RECURSIVE FirstBad(_, _)
FirstBad(hws, i) ==
    IF i > Len(hws) THEN 0
    ELSE IF hws[i].type # "dict" THEN i
    ELSE IF ~(hws[i].keys \subseteq HOMEWORK_ATTRIBUTES) THEN i
    ELSE FirstBad(hws, i + 1)

\* check_response looking at the first homework only
check_response_first_only(response) ==
    IF response.type # "dict" THEN Raise("TypeError", None)
    ELSE IF "homeworks" \notin response.keys \/ "current_date" \notin response.keys
        THEN Raise("KeyError", None)
    ELSE IF ~response.hwIsList \/ ~response.cdIsInt THEN Raise("TypeError", None)
    ELSE IF response.homeworks = <<>> THEN Return(None)
    ELSE LET bad == FirstBad(<<response.homeworks[1]>>, 1)
         IN  IF bad = 0 THEN Return(response.homeworks[1])
             ELSE IF response.homeworks[bad].type # "dict" THEN Raise("TypeError", None)
             ELSE Raise("KeyError", None)

\* check_response without the test for an empty list: homeworks[0] fails
check_response_no_empty(response) ==
    IF response.type # "dict" THEN Raise("TypeError", None)
    ELSE IF "homeworks" \notin response.keys \/ "current_date" \notin response.keys
        THEN Raise("KeyError", None)
    ELSE IF ~response.hwIsList \/ ~response.cdIsInt THEN Raise("TypeError", None)
    ELSE IF response.homeworks = <<>> THEN Raise("IndexError", None)
    ELSE LET bad == FirstBad(response.homeworks, 1)
         IN  IF bad = 0 THEN Return(response.homeworks[1])
             ELSE IF response.homeworks[bad].type # "dict" THEN Raise("TypeError", None)
             ELSE Raise("KeyError", None)

\* check_response(response)
check_response(response) ==
    IF response.type # "dict" THEN Raise("TypeError", None)
    ELSE IF "homeworks" \notin response.keys \/ "current_date" \notin response.keys
        THEN Raise("KeyError", None)
    ELSE IF ~response.hwIsList \/ ~response.cdIsInt THEN Raise("TypeError", None)
    ELSE IF response.homeworks = <<>> THEN Return(None)
    ELSE LET bad == FirstBad(response.homeworks, 1)
         IN  IF bad = 0 THEN Return(response.homeworks[1])
             ELSE IF response.homeworks[bad].type # "dict" THEN Raise("TypeError", None)
             ELSE Raise("KeyError", None)

\* a message: the template that was filled and what it was filled with
NoMessage == [template |-> "none", name |-> "", verdict |-> ""]
StatusMessage(name, verdict) == [template |-> "status", name |-> name, verdict |-> verdict]
ErrorMessage(step) == [template |-> step, name |-> "", verdict |-> ""]

\* parse_status(homework)
parse_status(homework) ==
    IF "status" \notin homework.keys \/ "homework_name" \notin homework.keys
        THEN Raise("KeyError", NoMessage)
    ELSE IF homework.status \in DOMAIN HOMEWORK_VERDICTS
        THEN Return(StatusMessage(homework.homework_name, HOMEWORK_VERDICTS[homework.status]))
    ELSE Raise("KeyError", NoMessage)

\* send_message without its try block: the failure reaches the caller
send_message_raises(delivers) ==
    IF delivers THEN "returned" ELSE "raised"

\* send_message(bot, message): how the call ends for its caller, given
\* whether bot.send_message delivers.  A failure of bot.send_message is
\* caught by `except Exception` and logged.
send_message(delivers) ==
    IF delivers THEN "returned" ELSE "returned"

\* one call of send_message as the history records it
Call(message, homework, delivers) ==
    [msg |-> message, hw |-> homework, delivered |-> delivers]

\* an except clause that sends the message whatever the flag says
ErrorHandler_Resend(flags, step, delivers) ==
    [flags |-> [flags EXCEPT ![step] = FALSE],
     calls |-> <<Call(ErrorMessage(step), None, delivers)>>,
     next  |-> "sleep"]

\* an except clause that continues without time.sleep
ErrorHandler_NoSleep(flags, step, delivers) ==
    IF flags[step] = TRUE
    THEN [flags |-> [flags EXCEPT ![step] = FALSE],
          calls |-> <<Call(ErrorMessage(step), None, delivers)>>,
          next  |-> "step1"]
    ELSE [flags |-> flags, calls |-> <<>>, next |-> "step1"]

\* an except clause that keeps one flag for all steps: clearing the flag of
\* its step sets those of the other steps
ErrorHandler_ResetOthers(flags, step, delivers) ==
    IF flags[step] = TRUE
    THEN [flags |-> [k \in DOMAIN flags |->
                        IF k = step THEN FALSE ELSE IF k = "step_0" THEN flags[k] ELSE TRUE],
          calls |-> <<Call(ErrorMessage(step), None, delivers)>>,
          next  |-> "sleep"]
    ELSE [flags |-> flags, calls |-> <<>>, next |-> "sleep"]

\* The body of an except clause of main() for the step `step`: send the
\* error message unless the flag says it was sent already, clear the flag,
\* sleep and continue.  An exception leaving send_message would leave the
\* except clause and main() with it.
ErrorHandler(flags, step, delivers) ==
    IF flags[step] = TRUE
    THEN IF send_message(delivers) = "returned"
         THEN [flags |-> [flags EXCEPT ![step] = FALSE],
               calls |-> <<Call(ErrorMessage(step), None, delivers)>>,
               next  |-> "sleep"]
         ELSE [flags |-> flags,
               calls |-> <<Call(ErrorMessage(step), None, delivers)>>,
               next  |-> "crashed"]
    ELSE [flags |-> flags, calls |-> <<>>, next |-> "sleep"]

----------------------------------------------------------------------------
(* History helpers.                                                        *)

Steps == {"step_1", "step_2", "step_3"}

NoSite == [s \in Steps |-> "none"]

\* the ids of the homeworks of a response body
IdsOf(body) ==
    {body.homeworks[i].id : i \in {j \in 1..Len(body.homeworks) : body.homeworks[j].type = "dict"}}

\* whether a response body carries the homework hw with the status hw has
Carries(body, hw) ==
    \E j \in 1..Len(body.homeworks) :
        /\ body.homeworks[j].type = "dict"
        /\ body.homeworks[j].id = hw.id
        /\ body.homeworks[j].status = hw.status

\* the homeworks the status notifications among calls are about, in order
SentHomeworks(calls) ==
    LET IsStatus(c) == c.msg.template = "status"
        st == SelectSeq(calls, IsStatus)
    IN  [i \in 1..Len(st) |-> st[i].hw]

\* the status notifications among the calls of this cycle
StatusCalls(calls) ==
    {i \in 1..Len(calls) : calls[i].msg.template = "status"}

\* the error notifications among the calls of this cycle
ErrorCalls(calls) ==
    {i \in 1..Len(calls) : calls[i].msg.template \in Steps}

----------------------------------------------------------------------------
(* main()                                                                  *)

Init ==
    /\ env \in SUBSET RequiredTokens
    /\ pc = "start"
    /\ exit_status = 0
    /\ step_error_status =
           [step_0 |-> TRUE, step_1 |-> TRUE, step_2 |-> TRUE, step_3 |-> TRUE]
    /\ timestamp = 0
    /\ answer = NoBody
    /\ check_answer = None
    /\ sent = <<>>
    /\ site = NoSite
    /\ branch = "none"
    /\ announced = [i \in Ids |-> "none"]
    /\ seen = {}
    /\ undelivered = None
    /\ armDelivered = [s \in Steps |-> TRUE]
    /\ fetchFailRun = 0
    /\ fetchErrSent = 0
    /\ polled = FALSE
    /\ slept = 0
    /\ errSince = [s \in Steps |-> 0]
    /\ cause = "none"

\* Lines 128-157: the bot is built, the tokens are checked and the loop
\* condition is tested for the first time.  TeleBot(token=None) either
\* builds a bot or raises, depending on the installed library: both happen.
\* When check_tokens raises, step_0 is cleared, the loop is skipped and
\* main() returns.
Startup ==
    /\ pc = "start"
    /\ \E validates \in BOOLEAN :
        IF "TELEGRAM_TOKEN" \notin env /\ validates
        THEN /\ pc' = "crashed"
             /\ exit_status' = 1
             /\ UNCHANGED step_error_status
        ELSE IF check_tokens(env) # "none"
        THEN /\ step_error_status' = [step_error_status EXCEPT !.step_0 = FALSE]
             /\ pc' = "exited"
             /\ exit_status' = 0
        ELSE /\ pc' = "step1"
             /\ UNCHANGED <<step_error_status, exit_status>>
    /\ UNCHANGED <<env, timestamp, answer, check_answer, sent, site, branch, announced,
                   seen, undelivered, armDelivered, fetchFailRun, fetchErrSent,
                   polled, slept, errSince, cause>>

\* Lines 159-186: step 1, the request to the API and its except clauses.
Step1 ==
    /\ pc = "step1"
    /\ \E reply \in Replies :
        /\ cause' = RaisedInTry(reply)
        /\ LET r == get_api_answer(reply)
           IN  IF r.exc = "none"
               THEN /\ answer' = r.val
                    /\ step_error_status' = [step_error_status EXCEPT !.step_1 = TRUE]
                    /\ pc' = "step2"
                    /\ site' = [site EXCEPT !.step_1 = "ok"]
                    /\ armDelivered' = [armDelivered EXCEPT !.step_1 = TRUE]
                    /\ fetchFailRun' = 0
                    /\ fetchErrSent' = 0
                    /\ errSince' = [errSince EXCEPT !.step_1 = 0]
                    /\ UNCHANGED <<sent, branch, exit_status>>
               ELSE \E delivers \in BOOLEAN :
                    LET h == ErrorHandler(step_error_status, "step_1", delivers)
                    IN  /\ fetchFailRun < MaxRun
                        /\ step_error_status' = h.flags
                        /\ pc' = h.next
                        /\ exit_status' = IF h.next = "crashed" THEN 1 ELSE exit_status
                        /\ sent' = sent \o h.calls
                        /\ site' = [site EXCEPT !.step_1 = "fail"]
                        /\ branch' = Step1Branch(r.exc)
                        /\ armDelivered' = IF h.calls # <<>> /\ h.next = "sleep"
                                           THEN [armDelivered EXCEPT !.step_1 = delivers]
                                           ELSE armDelivered
                        /\ fetchFailRun' = fetchFailRun + 1
                        /\ fetchErrSent' = fetchErrSent + Len(h.calls)
                        /\ errSince' = [errSince EXCEPT !.step_1 = @ + Len(h.calls)]
                        /\ UNCHANGED answer
    /\ polled' = TRUE
    /\ slept' = 0
    /\ UNCHANGED <<env, timestamp, check_answer, announced, seen, undelivered>>

\* Lines 189-207: step 2, the check of the answer.
Step2 ==
    /\ pc = "step2"
    /\ LET r == check_response(answer)
       IN  IF r.exc = "none" /\ r.val # None
           THEN /\ check_answer' = r.val
                /\ step_error_status' = [step_error_status EXCEPT !.step_2 = TRUE]
                /\ pc' = "step3"
                /\ site' = [site EXCEPT !.step_2 = "ok"]
                /\ armDelivered' = [armDelivered EXCEPT !.step_2 = TRUE]
                /\ errSince' = [errSince EXCEPT !.step_2 = 0]
                /\ UNCHANGED <<sent, exit_status>>
           ELSE IF r.exc = "none"
           THEN /\ check_answer' = r.val
                /\ pc' = "sleep"
                /\ site' = [site EXCEPT !.step_2 = "ok"]
                /\ errSince' = [errSince EXCEPT !.step_2 = 0]
                /\ UNCHANGED <<step_error_status, armDelivered, sent, exit_status>>
           ELSE \E delivers \in BOOLEAN :
                LET h == ErrorHandler(step_error_status, "step_2", delivers)
                IN  /\ step_error_status' = h.flags
                    /\ pc' = h.next
                    /\ exit_status' = IF h.next = "crashed" THEN 1 ELSE exit_status
                    /\ sent' = sent \o h.calls
                    /\ site' = [site EXCEPT !.step_2 = "fail"]
                    /\ armDelivered' = IF h.calls # <<>> /\ h.next = "sleep"
                                       THEN [armDelivered EXCEPT !.step_2 = delivers]
                                       ELSE armDelivered
                    /\ errSince' = [errSince EXCEPT !.step_2 = @ + Len(h.calls)]
                    /\ UNCHANGED check_answer
    /\ UNCHANGED <<env, timestamp, answer, branch, announced, seen, undelivered,
                   fetchFailRun, fetchErrSent, polled, slept, cause>>

\* Lines 210-227: step 3, the status of the homework is parsed and sent.
\* An exception leaving send_message inside the try block would be caught
\* by the except clause of the step.
Step3 ==
    /\ pc = "step3"
    /\ \E delivers \in BOOLEAN :
        LET r == parse_status(check_answer)
            tried == IF r.exc = "none"
                     THEN <<Call(r.val, check_answer, delivers)>>
                     ELSE <<>>
            done == r.exc = "none" /\ send_message(delivers) = "returned"
        IN  IF done
            THEN /\ step_error_status' = [step_error_status EXCEPT !.step_3 = TRUE]
                 /\ pc' = "sleep"
                 /\ sent' = sent \o tried
                 /\ site' = [site EXCEPT !.step_3 = "ok"]
                 /\ armDelivered' = [armDelivered EXCEPT !.step_3 = TRUE]
                 /\ announced' = IF delivers
                                 THEN [announced EXCEPT ![check_answer.id] = check_answer.status]
                                 ELSE announced
                 /\ errSince' = [errSince EXCEPT !.step_3 = 0]
                 /\ UNCHANGED exit_status
            ELSE \E deliversError \in BOOLEAN :
                 LET h == ErrorHandler(step_error_status, "step_3", deliversError)
                 IN  /\ step_error_status' = h.flags
                     /\ pc' = h.next
                     /\ exit_status' = IF h.next = "crashed" THEN 1 ELSE exit_status
                     /\ sent' = sent \o tried \o h.calls
                     /\ site' = [site EXCEPT !.step_3 = "fail"]
                     /\ armDelivered' = IF h.calls # <<>> /\ h.next = "sleep"
                                        THEN [armDelivered EXCEPT !.step_3 = deliversError]
                                        ELSE armDelivered
                     /\ errSince' = [errSince EXCEPT !.step_3 = @ + Len(h.calls)]
                     /\ UNCHANGED announced
    /\ UNCHANGED <<env, timestamp, answer, check_answer, branch, seen, undelivered,
                   fetchFailRun, fetchErrSent, polled, slept, cause>>

\* a loop that moves the timestamp after every cycle
cursor_after_cycle_bump(ts, outcome) ==
    ts + 1

\* The timestamp after a cycle with the step outcomes `outcome`: no
\* statement of the loop assigns timestamp.
cursor_after_cycle(ts, outcome) ==
    ts

\* time.sleep(RETRY_PERIOD), then the loop condition: step_0 is still True.
\* answer and check_answer are assigned again before the next cycle reads
\* them; the model forgets them here.
Sleep ==
    /\ pc = "sleep"
    /\ pc' = IF step_error_status.step_0 = TRUE THEN "step1" ELSE "exited"
    /\ answer' = NoBody
    /\ check_answer' = None
    /\ sent' = <<>>
    /\ site' = NoSite
    /\ branch' = "none"
    /\ seen' = IF site.step_2 = "ok" THEN seen \cup IdsOf(answer) ELSE seen
    /\ undelivered' =
           IF \E i \in StatusCalls(sent) : ~sent[i].delivered
           THEN sent[CHOOSE i \in StatusCalls(sent) : ~sent[i].delivered].hw
           ELSE IF site.step_2 = "ok" /\ Carries(answer, undelivered)
           THEN None
           ELSE undelivered
    /\ timestamp' = cursor_after_cycle(timestamp, site)
    /\ slept' = slept + RETRY_PERIOD
    /\ cause' = "none"
    /\ UNCHANGED <<env, exit_status, step_error_status, announced,
                   armDelivered, fetchFailRun, fetchErrSent, polled, errSince>>

Next == Startup \/ Step1 \/ Step2 \/ Step3 \/ Sleep

Spec == Init /\ [][Next]_vars

----------------------------------------------------------------------------
(* Properties.                                                             *)

InLoop == pc \in {"step1", "step2", "step3", "sleep"}

Ended == pc \in {"exited", "crashed"}

\* C1: a cycle whose homework has the status that was last delivered for it
\* sends no status notification.
C1_UnchangedIsSilent ==
    [][(pc = "step3" /\ announced[check_answer.id] = check_answer.status)
        => StatusCalls(sent') = {}]_vars

\* C2: when two or more homeworks of a validated payload changed, the cycle
\* sends a status notification for each of them, in the order of the list.
C2_AllChangedSent ==
    [][pc = "step3" =>
        LET Changed(hw) == announced[hw.id] # hw.status
            changed == SelectSeq(answer.homeworks, Changed)
        IN  Len(changed) >= 2 => SentHomeworks(sent') = changed]_vars

\* C3: at the end of the first cycle whose validated payload carries an id,
\* a status notification for that id has been sent.
C3_FirstSightingSent ==
    (pc = "sleep" /\ site.step_2 = "ok") =>
        \A i \in IdsOf(answer) \ seen :
            \E k \in StatusCalls(sent) : sent[k].hw.id = i

\* C4: in a run of N >= 1 consecutive failed fetches exactly one error
\* notification is sent; a successful fetch ends the run, so the next failed
\* fetch starts a run with a notification of its own.
C4_OneErrorPerRun ==
    fetchFailRun >= 1 => fetchErrSent = 1

C4_Witness ==
    /\ pc = "sleep"
    /\ fetchFailRun >= 2
    /\ fetchErrSent = 1
    /\ seen # {}

\* C5: a step that succeeded in this cycle has its flag back at True.
C5_SuccessClears ==
    \A s \in Steps : site[s] = "ok" => step_error_status[s] = TRUE

\* C6: a flag is False only if the notification that cleared it was delivered.
C6_ArmedOnlyIfDelivered ==
    \A s \in Steps : step_error_status[s] = FALSE => armDelivered[s]

\* C7: a failed delivery is visible to the caller of send_message and is
\* recorded in the flags under an entry of its own, apart from those of the
\* token check and of steps 1 to 3.
C7_DeliveryFailureRecorded ==
    \A i \in 1..Len(sent) :
        ~sent[i].delivered =>
            /\ send_message(sent[i].delivered) = "raised"
            /\ \E k \in DOMAIN step_error_status \ {"step_0", "step_1", "step_2", "step_3"} :
                   step_error_status[k] = FALSE

\* C8: after the delivery of a status notification failed, the next cycle
\* whose validated payload carries that homework with that status sends the
\* status notification again.
C8_FailedDeliveryRetried ==
    (pc = "sleep" /\ undelivered # None /\ site.step_2 = "ok" /\ Carries(answer, undelivered)) =>
        \E k \in StatusCalls(sent) :
            /\ sent[k].hw.id = undelivered.id
            /\ sent[k].hw.status = undelivered.status

\* C9: inside the loop every step leads to a position inside the loop; a
\* step that failed, or whose message was not delivered, leads to the sleep,
\* and the sleep leads to the next request.
C9_LoopSurvivesErrors ==
    [][InLoop =>
        /\ InLoop'
        /\ (\E s \in Steps : site'[s] = "fail") => pc' = "sleep"
        /\ (\E i \in 1..Len(sent') : ~sent'[i].delivered) => pc' = "sleep"
        /\ pc = "sleep" => pc' = "step1"]_vars

C9_Witness ==
    /\ pc = "sleep"
    /\ site.step_3 = "fail"
    /\ Len(sent) = 1
    /\ ~sent[1].delivered

\* C10: a process that ended with a required token missing ended with a
\* status other than 0.
C10_MissingTokenExitsNonZero ==
    (Ended /\ ~(RequiredTokens \subseteq env)) => exit_status # 0

\* C11: with a required token missing the process is never inside the
\* loop: get_api_answer is never called and no message is sent.
C11_NoCycleWithoutTokens ==
    ~(RequiredTokens \subseteq env) =>
        /\ pc \in {"start", "exited", "crashed"}
        /\ ~polled
        /\ sent = <<>>

C11_Witness ==
    /\ pc = "exited"
    /\ ~(RequiredTokens \subseteq env)
    /\ step_error_status.step_0 = FALSE
    /\ ~polled

\* C12: every call of get_api_answer but the first is preceded by exactly
\* one sleep of RETRY_PERIOD since the call before it, and nothing sleeps
\* between the call and the end of the cycle's work.
C12_OneSleepPerCycle ==
    /\ pc = "step1" => slept = (IF polled THEN RETRY_PERIOD ELSE 0)
    /\ pc \in {"step2", "step3", "sleep"} => slept = 0

C12_Witness ==
    /\ pc = "step1"
    /\ slept = RETRY_PERIOD
    /\ \A s \in Steps : step_error_status[s] = FALSE

\* C13: between two successes of a step at most one error notification of
\* that step is sent, and a step that fails while its flag is False sends
\* nothing.
C13_OneErrorPerOutage ==
    [][\A s \in Steps :
        /\ errSince'[s] <= 1
        /\ (step_error_status[s] = FALSE /\ site[s] = "none" /\ site'[s] = "fail")
               => sent' = sent]_vars

C13_Witness ==
    /\ pc = "sleep"
    /\ site.step_2 = "fail"
    /\ sent = <<>>
    /\ errSince.step_2 = 1

\* C14: a response with a status other than 200 is handled by the HTTPError
\* clause of step 1 and a transport failure by its RequestException clause.
C14_KindsDistinguished ==
    /\ cause = "HTTPError" => branch = "HTTPError"
    /\ cause = "ConnectionError" => branch = "RequestException"

\* the payloads the documented schema rejects
SchemaViolation(body) ==
    \/ body.type # "dict"
    \/ "homeworks" \notin body.keys
    \/ ~body.hwIsList
    \/ \E i \in 1..Len(body.homeworks) :
           \/ body.homeworks[i].type # "dict"
           \/ ~(body.homeworks[i].keys \subseteq
                  {"id", "status", "homework_name", "reviewer_comment",
                   "date_updated", "lesson_name"})

\* C15: step 2 ends with check_response having returned or raised, it
\* leaves the answer and the timestamp as they were, and for a payload the
\* schema rejects it raises: the step fails and check_answer is not assigned.
C15_SchemaErrors ==
    [][pc = "step2" =>
        /\ answer' = answer
        /\ timestamp' = timestamp
        /\ site'.step_2 \in {"ok", "fail"}
        /\ SchemaViolation(answer) =>
               /\ site'.step_2 = "fail"
               /\ check_answer' = check_answer
               /\ pc' = "sleep"]_vars

C15_Witness ==
    /\ pc = "sleep"
    /\ site.step_2 = "fail"
    /\ Len(answer.homeworks) = 2
    /\ answer.homeworks[1].type = "dict"
    /\ answer.homeworks[1].keys \subseteq HOMEWORK_ATTRIBUTES
    /\ answer.homeworks[2].type = "other"

\* the verdict the documentation assigns to a status
ExpectedVerdict(status) ==
    CASE status = "approved"  -> "liked"
      [] status = "reviewing" -> "taken"
      [] status = "rejected"  -> "remarks"

\* C16: step 3 fails without a status notification when the homework lacks
\* status or homework_name or has a status outside the three documented
\* ones; otherwise its message is the template filled with the name of the
\* homework and the verdict of exactly its status.
C16_ParseStatus ==
    [][pc = "step3" =>
        IF \/ "status" \notin check_answer.keys
           \/ "homework_name" \notin check_answer.keys
           \/ check_answer.status \notin {"approved", "reviewing", "rejected"}
        THEN /\ site'.step_3 = "fail"
             /\ StatusCalls(sent') = {}
        ELSE /\ Len(sent') >= 1
             /\ sent'[1].msg = [template |-> "status",
                                name |-> check_answer.homework_name,
                                verdict |-> ExpectedVerdict(check_answer.status)]]_vars

C16_Witness ==
    /\ pc = "sleep"
    /\ Len(sent) = 1
    /\ sent[1].msg = [template |-> "status", name |-> "hw1", verdict |-> "remarks"]

EmptyBody == Body({"homeworks", "current_date"}, TRUE, TRUE, <<>>)

\* C17: a cycle that fetched a well-formed payload with an empty homeworks
\* list goes from step 2 to the sleep and calls send_message not once.
C17_EmptyListSilent ==
    (site.step_1 = "ok" /\ answer = EmptyBody /\ pc # "step2") =>
        /\ pc = "sleep"
        /\ sent = <<>>
        /\ site.step_3 = "none"

C17_Witness ==
    /\ pc = "sleep"
    /\ answer = EmptyBody
    /\ site.step_2 = "ok"
    /\ sent = <<>>

\* C18: the timestamp changes only in the step that ends a cycle in which
\* every step succeeded and every message was delivered.
C18_CursorFrame ==
    [][timestamp' # timestamp =>
        /\ pc = "sleep"
        /\ \A s \in Steps : site[s] = "ok"
        /\ \A i \in 1..Len(sent) : sent[i].delivered]_vars

C18_Witness ==
    /\ pc = "step1"
    /\ polled
    /\ fetchFailRun >= 1
    /\ timestamp = 0

\* C19: a cycle calls send_message at most once.
C19_AtMostOneCall ==
    Len(sent) <= 1

C19_Witness ==
    /\ pc = "sleep"
    /\ Len(sent) = 1
    /\ sent[1].msg.template = "status"
    /\ ~sent[1].delivered
    /\ site.step_3 = "ok"

\* C20: a step leaves the flags of the steps the cycle has not reached as
\* they were.
C20_FlagsIndependent ==
    [][\A s \in Steps :
        site'[s] = "none" => step_error_status'[s] = step_error_status[s]]_vars

C20_Witness ==
    /\ pc = "sleep"
    /\ site.step_1 = "fail"
    /\ fetchFailRun >= 2
    /\ step_error_status.step_2 = FALSE
    /\ step_error_status.step_3 = FALSE

====
